---- MODULE Spec2Model ----
(***************************************************************************)
(* Receptive-field calculator of src/app.py: the Layer classes, the        *)
(* ReceptiveFieldCalculator engine and the Flask route handlers that call  *)
(* it on the single calculator instance held by FlaskApp.                  *)
(*                                                                         *)
(* Numbers: sizes, rf and jump are Python ints.  start is a Python float   *)
(* that only ever holds multiples of 0.5 (it begins at 0.5 and grows by    *)
(* ((k_eff - 1) / 2 - p) * j); it is kept here in halves (start = 0.5 is   *)
(* 1), and round(start, 3) is kept in thousandths (1.0 is 1000).           *)
(***************************************************************************)
EXTENDS Integers, Sequences, FiniteSets, TLC

VARIABLES
    rf,              \* self.rf of the calculator
    jump,            \* self.jump
    start,           \* self.start, in halves
    layers,          \* self.layers
    input_height,    \* self.input_height
    input_width,     \* self.input_width
    input_channels,  \* self.input_channels
    response,        \* what the last request handled one at a time returned
    pc,              \* per worker thread: where it is in its handler
    req,             \* per worker thread: the request it is handling
    loc,             \* per worker thread: locals of compute_current_state
    resp,            \* per worker thread: the response it is returning
    before           \* history: the calculator as the last request found it

calc == <<rf, jump, start, layers, input_height, input_width, input_channels>>
thr == <<pc, req, loc, resp>>
seq == <<response, before>>
vars == <<rf, jump, start, layers, input_height, input_width, input_channels,
          response, pc, req, loc, resp, before>>

---------------------------------------------------------------------------
(* Bounds and request domains. *)

\* Layers the requests handled one at a time may add before a reset.
MaxLayers == 3

\* Layers the worker threads may add in all.
MaxThreadLayers == 2

DefaultHeight == 224
DefaultWidth == 224
DefaultChannels == 3

\* JSON bodies posted to /api/add_layer.
LayerReq(t, k, s, p, d) ==
    [type |-> t, kernel_size |-> k, stride |-> s, padding |-> p, dilation |-> d]

ValidLayerRequests ==
    { LayerReq("conv", 3, 1, 0, 1), LayerReq("conv", 3, 1, 1, 2),
      LayerReq("maxpool", 2, 2, 0, 2), LayerReq("avgpool", 3, 2, 1, 1) }

InvalidLayerRequests ==
    { LayerReq("conv", 0, 1, 0, 1), LayerReq("conv", 3, 0, 0, 1),
      LayerReq("avgpool", 2, 1, -1, 1), LayerReq("conv", 3, 1, 0, 0),
      LayerReq("linear", 3, 1, 0, 1) }

AddLayerRequests == ValidLayerRequests \cup InvalidLayerRequests

\* JSON bodies posted to /api/set_input_dimensions.
DimReq(h, w, c) == [height |-> h, width |-> w, channels |-> c]

ValidDimRequests == { DimReq(3, 4, 1), DimReq(224, 224, 3) }

InvalidDimRequests ==
    { DimReq(0, 4, 1), DimReq(3, -1, 1), DimReq(3, 4, 0), DimReq(-2, 224, 3) }

DimRequests == ValidDimRequests \cup InvalidDimRequests

\* Multipart bodies posted to /api/upload_image: no "image" part, a file
\* cv2.imread cannot decode, or an image with its img.shape (cv2.imread
\* returns height x width x 3).
Upload(file, shape) == [file |-> file, shape |-> shape]

ImageUploads ==
    { Upload("missing", <<>>), Upload("unreadable", <<>>),
      Upload("image", <<3, 4, 3>>) }

---------------------------------------------------------------------------
(* The Layer classes. *)

Layer(name, kernel_size, stride, padding, dilation) ==
    [name |-> name, kernel_size |-> kernel_size, stride |-> stride,
     padding |-> padding, dilation |-> dilation]

Conv2DLayer(kernel_size, stride, padding, dilation) ==
    Layer("Conv2D", kernel_size, stride, padding, dilation)

PoolingLayer(pool_type, kernel_size, stride, padding) ==
    Layer(pool_type, kernel_size, stride, padding, 1)

MaxPool2DLayer(kernel_size, stride, padding) ==
    PoolingLayer("MaxPool2D", kernel_size, stride, padding)

AvgPool2DLayer(kernel_size, stride, padding) ==
    PoolingLayer("AvgPool2D", kernel_size, stride, padding)

\* Mutant: the dilation is forgotten.
get_effective_kernel_size_NoDilation(layer) == layer.kernel_size

get_effective_kernel_size(layer) ==
    (layer.kernel_size - 1) * layer.dilation + 1

\* math.floor(a / s) + 1; a / 0 raises ZeroDivisionError, which the callers
\* test for before they use this.
compute_output_size(layer, input_size) ==
    ((input_size + 2 * layer.padding - get_effective_kernel_size(layer))
        \div layer.stride) + 1

\* round(x, 3) of a float holding x2 halves, in thousandths (ties to even).
Round3(x2) ==
    LET n == x2 * 1000
        q == n \div 2
    IN  IF n % 2 = 0 THEN q ELSE IF q % 2 = 0 THEN q ELSE q + 1

---------------------------------------------------------------------------
(* ReceptiveFieldCalculator.compute_current_state. *)

\* Mutant: start begins at 0 instead of 0.5.
LoopInit_StartZero(h, w, c) ==
    [rf |-> 1, j |-> 1, start |-> 0, results |-> <<>>,
     current_height |-> h, current_width |-> w, current_channels |-> c,
     raised |-> FALSE]

\* Mutant: the channel count begins at the default 3, not at the field.
LoopInit_DefaultChannels(h, w, c) ==
    [rf |-> 1, j |-> 1, start |-> 1, results |-> <<>>,
     current_height |-> h, current_width |-> w, current_channels |-> 3,
     raised |-> FALSE]

\* The locals before the loop, from the three input fields as read.
LoopInit(h, w, c) ==
    [rf |-> 1, j |-> 1, start |-> 1, results |-> <<>>,
     current_height |-> h, current_width |-> w, current_channels |-> c,
     raised |-> FALSE]

\* One iteration of "for layer in self.layers".
LoopBody(st, layer) ==
    LET k_eff == get_effective_kernel_size(layer)
        p == layer.padding
        s == layer.stride
        rf_next == st.rf + (k_eff - 1) * st.j
        start_next == st.start + ((k_eff - 1) - 2 * p) * st.j
        j_next == st.j * s
    IN  IF s = 0
        THEN [st EXCEPT !.raised = TRUE]
        ELSE
          LET output_height == compute_output_size(layer, st.current_height)
              output_width == compute_output_size(layer, st.current_width)
              output_channels == IF layer.name = "Conv2D"
                                 THEN st.current_channels
                                 ELSE st.current_channels
              row == [name |-> layer.name,
                      kernel_size |-> layer.kernel_size,
                      stride |-> layer.stride,
                      padding |-> layer.padding,
                      dilation |-> layer.dilation,
                      effective_kernel |-> k_eff,
                      receptive_field |-> rf_next,
                      jump |-> j_next,
                      start |-> Round3(start_next),
                      input_height |-> st.current_height,
                      input_width |-> st.current_width,
                      input_channels |-> st.current_channels,
                      output_height |-> output_height,
                      output_width |-> output_width,
                      output_channels |-> output_channels]
          IN  [rf |-> rf_next, j |-> j_next, start |-> start_next,
               results |-> Append(st.results, row),
               current_height |-> output_height,
               current_width |-> output_width,
               current_channels |-> output_channels,
               raised |-> FALSE]

RECURSIVE Loop(_, _, _)
Loop(ls, i, st) ==
    IF i > Len(ls) \/ st.raised THEN st
    ELSE Loop(ls, i + 1, LoopBody(st, ls[i]))

\* The returned dict, from the locals after the loop and the three input
\* fields as read again for "input_dimensions".
TraceOf(st, h, w, c) ==
    [layers |-> st.results,
     current_rf |-> st.rf,
     current_jump |-> st.j,
     current_start |-> Round3(st.start),
     input_dimensions |-> [height |-> h, width |-> w, channels |-> c],
     final_dimensions |-> [height |-> st.current_height,
                           width |-> st.current_width,
                           channels |-> st.current_channels]]

\* The outcome of compute_current_state() on a calculator holding ls, h, w, c:
\* either it raises ZeroDivisionError or it returns the trace.
compute_current_state(ls, h, w, c) ==
    LET st == Loop(ls, 1, LoopInit(h, w, c))
    IN  IF st.raised
        THEN [raised |-> TRUE, error |-> "division by zero"]
        ELSE [raised |-> FALSE, trace |-> TraceOf(st, h, w, c)]

---------------------------------------------------------------------------
(* HTTP responses. *)

Ok(route, trace) ==
    [route |-> route, kind |-> "trace", status |-> 200, trace |-> trace]
Error400(route, msg) ==
    [route |-> route, kind |-> "error", status |-> 400, error |-> msg]
Error500(route) == [route |-> route, kind |-> "exception", status |-> 500]
ResetOk ==
    [route |-> "/api/reset", kind |-> "message", status |-> 200,
     message |-> "Reset successful"]
UploadOk(h, w, c, trace) ==
    [route |-> "/api/upload_image", kind |-> "upload", status |-> 200,
     dimensions |-> [height |-> h, width |-> w, channels |-> c],
     trace |-> trace]
NoResponse == [route |-> "none", kind |-> "none", status |-> 0]

\* "return jsonify(result)" inside a try whose except returns str(e) with 400.
Jsonify400(route, out) ==
    IF out.raised THEN Error400(route, out.error) ELSE Ok(route, out.trace)

---------------------------------------------------------------------------
(* The calculator's methods, as next-state relations on its fields. *)

\* Mutant: reset forgets the input dimensions.
calc_reset_KeepsInput ==
    /\ rf' = 1
    /\ jump' = 1
    /\ start' = 1
    /\ layers' = <<>>
    /\ UNCHANGED <<input_height, input_width, input_channels>>

calc_reset ==
    /\ rf' = 1
    /\ jump' = 1
    /\ start' = 1
    /\ layers' = <<>>
    /\ input_height' = DefaultHeight
    /\ input_width' = DefaultWidth
    /\ input_channels' = DefaultChannels

calc_set_input_dimensions(height, width, channels) ==
    /\ input_height' = height
    /\ input_width' = width
    /\ input_channels' = channels
    /\ UNCHANGED <<rf, jump, start, layers>>

\* Mutant: the layer is inserted at the front.
calc_add_layer_Prepend(layer) ==
    /\ layers' = <<layer>> \o layers
    /\ UNCHANGED <<rf, jump, start, input_height, input_width, input_channels>>

calc_add_layer(layer) ==
    /\ layers' = Append(layers, layer)
    /\ UNCHANGED <<rf, jump, start, input_height, input_width, input_channels>>

\* The Layer object the add_layer route builds; "none" for an unknown type.
MakeLayer(r) ==
    IF r.type = "conv"
    THEN Conv2DLayer(r.kernel_size, r.stride, r.padding, r.dilation)
    ELSE IF r.type = "maxpool"
    THEN MaxPool2DLayer(r.kernel_size, r.stride, r.padding)
    ELSE IF r.type = "avgpool"
    THEN AvgPool2DLayer(r.kernel_size, r.stride, r.padding)
    ELSE [name |-> "none"]

---------------------------------------------------------------------------
(* The route handlers, one request handled at a time. *)

Threads == {1, 2}

Snapshot ==
    [layers |-> layers, height |-> input_height, width |-> input_width,
     channels |-> input_channels]

\* What every handler run on its own leaves behind besides its response.
Handled ==
    /\ before' = Snapshot
    /\ UNCHANGED thr

Init ==
    /\ rf = 1
    /\ jump = 1
    /\ start = 1
    /\ layers = <<>>
    /\ input_height = DefaultHeight
    /\ input_width = DefaultWidth
    /\ input_channels = DefaultChannels
    /\ response = NoResponse
    /\ before = [layers |-> <<>>, height |-> DefaultHeight,
                 width |-> DefaultWidth, channels |-> DefaultChannels]
    /\ pc = [t \in Threads |-> "idle"]
    /\ req = [t \in Threads |-> [op |-> "none"]]
    /\ loc = [t \in Threads |-> <<>>]
    /\ resp = [t \in Threads |-> NoResponse]

\* Mutant: only the height is validated.
set_input_dimensions_HeightOnly(r) ==
    /\ IF r.height <= 0
       THEN /\ response' = Error400("/api/set_input_dimensions",
                                    "Dimensions must be positive integers")
            /\ UNCHANGED calc
       ELSE /\ calc_set_input_dimensions(r.height, r.width, r.channels)
            /\ response' = Jsonify400("/api/set_input_dimensions",
                   compute_current_state(layers, r.height, r.width, r.channels))
    /\ Handled

set_input_dimensions(r) ==
    /\ IF r.height <= 0 \/ r.width <= 0 \/ r.channels <= 0
       THEN /\ response' = Error400("/api/set_input_dimensions",
                                    "Dimensions must be positive integers")
            /\ UNCHANGED calc
       ELSE /\ calc_set_input_dimensions(r.height, r.width, r.channels)
            /\ response' = Jsonify400("/api/set_input_dimensions",
                   compute_current_state(layers, r.height, r.width, r.channels))
    /\ Handled

upload_image(u) ==
    /\ IF u.file = "missing"
       THEN /\ response' = Error400("/api/upload_image",
                                    "No image file provided")
            /\ UNCHANGED calc
       ELSE IF u.file = "unreadable"
       THEN /\ response' = Error400("/api/upload_image",
                                    "Could not read image file")
            /\ UNCHANGED calc
       ELSE LET height == u.shape[1]
                width == u.shape[2]
                channels == IF Len(u.shape) > 2 THEN u.shape[3] ELSE 1
                out == compute_current_state(layers, height, width, channels)
            IN  /\ calc_set_input_dimensions(height, width, channels)
                /\ response' = IF out.raised
                               THEN Error400("/api/upload_image", out.error)
                               ELSE UploadOk(height, width, channels,
                                             out.trace)
    /\ Handled

add_layer(r) ==
    /\ Len(layers) < MaxLayers
    /\ LET layer == MakeLayer(r)
       IN  IF layer.name = "none"
           THEN /\ response' = Error400("/api/add_layer", "Invalid layer type")
                /\ UNCHANGED calc
           ELSE /\ calc_add_layer(layer)
                /\ response' = Jsonify400("/api/add_layer",
                       compute_current_state(Append(layers, layer),
                           input_height, input_width, input_channels))
    /\ Handled

reset ==
    /\ calc_reset
    /\ response' = ResetOk
    /\ Handled

\* Mutant: the computation leaves its running height in the input field.
current_state_StoresHeight ==
    /\ LET out == compute_current_state(layers, input_height, input_width,
                                        input_channels)
       IN  /\ response' = IF out.raised THEN Error500("/api/current_state")
                          ELSE Ok("/api/current_state", out.trace)
           /\ input_height' = IF out.raised THEN input_height
                              ELSE out.trace.final_dimensions.height
    /\ UNCHANGED <<rf, jump, start, layers, input_width, input_channels>>
    /\ Handled

current_state ==
    /\ UNCHANGED calc
    /\ LET out == compute_current_state(layers, input_height, input_width,
                                        input_channels)
       IN  response' = IF out.raised THEN Error500("/api/current_state")
                       ELSE Ok("/api/current_state", out.trace)
    /\ Handled

Next ==
    \/ \E r \in DimRequests : set_input_dimensions(r)
    \/ \E u \in ImageUploads : upload_image(u)
    \/ \E r \in AddLayerRequests : add_layer(r)
    \/ reset
    \/ current_state

Spec == Init /\ [][Next]_vars

---------------------------------------------------------------------------
(* The same handlers run by the worker threads of the development server   *)
(* (app.run serves each request in its own thread) on the one calculator:  *)
(* no handler takes a lock, so threads interleave between the statements   *)
(* below.  Each label is one statement or one run of statements of the     *)
(* handler; the three reads of a group of input fields, and the loop over  *)
(* self.layers, are each taken in one step.                                *)

Request(op, arg) == [op |-> op, arg |-> arg]

ThreadRequests ==
    { Request("add_layer", LayerReq("conv", 3, 1, 0, 1)),
      Request("add_layer", LayerReq("maxpool", 2, 2, 0, 1)),
      Request("set_input_dimensions", DimReq(3, 4, 1)),
      Request("reset", <<>>),
      Request("current_state", <<>>) }

Route(op) ==
    IF op = "add_layer" THEN "/api/add_layer"
    ELSE IF op = "set_input_dimensions" THEN "/api/set_input_dimensions"
    ELSE IF op = "reset" THEN "/api/reset"
    ELSE "/api/current_state"

\* Appends begun and not yet done, counted to keep self.layers bounded.
PendingAppends == Cardinality({t \in Threads : pc[t] = "add_append"})

Goto(t, label) == pc' = [pc EXCEPT ![t] = label]

Return(t, r) ==
    /\ resp' = [resp EXCEPT ![t] = r]
    /\ Goto(t, "done")

\* A request arrives: the handler parses it and reaches its first access to
\* the calculator.
t_begin(t, r) ==
    /\ pc[t] = "idle"
    /\ req' = [req EXCEPT ![t] = r]
    /\ IF r.op = "add_layer"
       THEN /\ Len(layers) + PendingAppends < MaxThreadLayers
            /\ IF MakeLayer(r.arg).name = "none"
               THEN Return(t, Error400("/api/add_layer", "Invalid layer type"))
               ELSE Goto(t, "add_append") /\ UNCHANGED resp
       ELSE IF r.op = "set_input_dimensions"
       THEN IF r.arg.height <= 0 \/ r.arg.width <= 0 \/ r.arg.channels <= 0
            THEN Return(t, Error400("/api/set_input_dimensions",
                                    "Dimensions must be positive integers"))
            ELSE Goto(t, "set_height") /\ UNCHANGED resp
       ELSE IF r.op = "reset"
       THEN Goto(t, "reset_layers") /\ UNCHANGED resp
       ELSE Goto(t, "cs_read") /\ UNCHANGED resp
    /\ UNCHANGED <<calc, loc, seq>>

\* self.layers.append(layer)
t_add_append(t) ==
    /\ pc[t] = "add_append"
    /\ calc_add_layer(MakeLayer(req[t].arg))
    /\ Goto(t, "cs_read")
    /\ UNCHANGED <<req, loc, resp, seq>>

\* self.input_height = height
t_set_height(t) ==
    /\ pc[t] = "set_height"
    /\ input_height' = req[t].arg.height
    /\ Goto(t, "set_width")
    /\ UNCHANGED <<rf, jump, start, layers, input_width, input_channels,
                   req, loc, resp, seq>>

\* self.input_width = width
t_set_width(t) ==
    /\ pc[t] = "set_width"
    /\ input_width' = req[t].arg.width
    /\ Goto(t, "set_channels")
    /\ UNCHANGED <<rf, jump, start, layers, input_height, input_channels,
                   req, loc, resp, seq>>

\* self.input_channels = channels
t_set_channels(t) ==
    /\ pc[t] = "set_channels"
    /\ input_channels' = req[t].arg.channels
    /\ Goto(t, "cs_read")
    /\ UNCHANGED <<rf, jump, start, layers, input_height, input_width,
                   req, loc, resp, seq>>

\* reset(): self.rf, self.jump, self.start, self.layers
t_reset_layers(t) ==
    /\ pc[t] = "reset_layers"
    /\ rf' = 1 /\ jump' = 1 /\ start' = 1
    /\ layers' = <<>>
    /\ Goto(t, "reset_input")
    /\ UNCHANGED <<input_height, input_width, input_channels,
                   req, loc, resp, seq>>

\* reset(): self.input_height, self.input_width, self.input_channels,
\* and the handler's return
t_reset_input(t) ==
    /\ pc[t] = "reset_input"
    /\ input_height' = DefaultHeight
    /\ input_width' = DefaultWidth
    /\ input_channels' = DefaultChannels
    /\ Return(t, ResetOk)
    /\ UNCHANGED <<rf, jump, start, layers, req, loc, seq>>

\* compute_current_state: the locals before the loop
t_cs_read(t) ==
    /\ pc[t] = "cs_read"
    /\ loc' = [loc EXCEPT ![t] =
                  LoopInit(input_height, input_width, input_channels)]
    /\ Goto(t, "cs_loop")
    /\ UNCHANGED <<calc, req, resp, seq>>

\* compute_current_state: the loop; a ZeroDivisionError ends the handler
\* (400 from the handlers that catch it, 500 from current_state)
t_cs_loop(t) ==
    /\ pc[t] = "cs_loop"
    /\ LET st == Loop(layers, 1, loc[t])
       IN  /\ loc' = [loc EXCEPT ![t] = st]
           /\ IF st.raised
              THEN Return(t, IF req[t].op = "current_state"
                             THEN Error500("/api/current_state")
                             ELSE Error400(Route(req[t].op),
                                           "division by zero"))
              ELSE Goto(t, "cs_return") /\ UNCHANGED resp
    /\ UNCHANGED <<calc, req, seq>>

\* compute_current_state: the returned dict, and the handler's return
t_cs_return(t) ==
    /\ pc[t] = "cs_return"
    /\ Return(t, Ok(Route(req[t].op),
                    TraceOf(loc[t], input_height, input_width,
                            input_channels)))
    /\ UNCHANGED <<calc, req, loc, seq>>

\* The response has been sent; the thread takes the next request.
t_finish(t) ==
    /\ pc[t] = "done"
    /\ pc' = [pc EXCEPT ![t] = "idle"]
    /\ req' = [req EXCEPT ![t] = [op |-> "none"]]
    /\ loc' = [loc EXCEPT ![t] = <<>>]
    /\ resp' = [resp EXCEPT ![t] = NoResponse]
    /\ UNCHANGED <<calc, seq>>

NextThreads ==
    \E t \in Threads :
        \/ \E r \in ThreadRequests : t_begin(t, r)
        \/ t_add_append(t)
        \/ t_set_height(t)
        \/ t_set_width(t)
        \/ t_set_channels(t)
        \/ t_reset_layers(t)
        \/ t_reset_input(t)
        \/ t_cs_read(t)
        \/ t_cs_loop(t)
        \/ t_cs_return(t)
        \/ t_finish(t)

SpecThreads == Init /\ [][NextThreads]_vars

---------------------------------------------------------------------------
(* Vocabulary of the properties. *)

input_spec == <<input_height, input_width, input_channels>>

\* What GetCurrentTrace computes in the current state.
CurrentOut ==
    compute_current_state(layers, input_height, input_width, input_channels)

HasTrace(r) == r.kind \in {"trace", "upload"}

ValidLayer(l) ==
    l.kernel_size >= 1 /\ l.stride >= 1 /\ l.dilation >= 1 /\ l.padding >= 0

AllValid(ls) == \A i \in 1..Len(ls) : ValidLayer(ls[i])

PositiveInput == input_height > 0 /\ input_width > 0 /\ input_channels > 0

BadLayerRequest(r) ==
    \/ r.kernel_size < 1
    \/ r.stride < 1
    \/ r.dilation < 1
    \/ r.padding < 0
    \/ r.type \notin {"conv", "maxpool", "avgpool"}

BadDimRequest(r) == r.height <= 0 \/ r.width <= 0 \/ r.channels <= 0

DefaultTrace ==
    [layers |-> <<>>, current_rf |-> 1, current_jump |-> 1,
     current_start |-> 500,
     input_dimensions |-> [height |-> 224, width |-> 224, channels |-> 3],
     final_dimensions |-> [height |-> 224, width |-> 224, channels |-> 3]]

---------------------------------------------------------------------------
(* C1: an AddLayer request that fails (kernel_size < 1, stride < 1,        *)
(* dilation < 1, padding < 0 or an unknown layer type) returns an error    *)
(* and leaves the layer sequence and the input dimensions as they were, so *)
(* that GetCurrentTrace afterwards succeeds with the same trace as before. *)
C1_FailedAddLayerChangesNothing ==
    [][\A r \in AddLayerRequests :
         (add_layer(r) /\ BadLayerRequest(r)) =>
            /\ response'.kind = "error"
            /\ layers' = layers
            /\ input_spec' = input_spec
            /\ ~CurrentOut'.raised
            /\ CurrentOut' = CurrentOut]_vars

(* C2: set_input_dimensions with a height, width or channels that is zero  *)
(* or negative fails with a validation error (status 400) and changes      *)
(* neither the input dimensions nor the layer sequence.                    *)
C2_BadDimensionsRejected ==
    [][\A r \in DimRequests :
         (set_input_dimensions(r) /\ BadDimRequest(r)) =>
            /\ response'.kind = "error"
            /\ response'.status = 400
            /\ input_spec' = input_spec
            /\ layers' = layers]_vars

C2_Witness ==
    /\ response.route = "/api/set_input_dimensions"
    /\ response.kind = "error"
    /\ Len(layers) >= 2
    /\ input_spec = <<3, 4, 1>>
    /\ before = Snapshot

(* C3: reset puts the calculator in the default state whatever came before *)
(* (no layers, 224x224x3, rf = 1, jump = 1, start = 0.5), the trace of     *)
(* that state is the default trace, and a reset right after a reset        *)
(* changes nothing.                                                        *)
C3_ResetRestoresDefault ==
    [][reset =>
         /\ layers' = <<>>
         /\ input_spec' = <<224, 224, 3>>
         /\ rf' = 1 /\ jump' = 1 /\ start' = 1
         /\ CurrentOut' = [raised |-> FALSE, trace |-> DefaultTrace]
         /\ (response = ResetOk => UNCHANGED calc)]_vars

C3_Witness ==
    /\ response = ResetOk
    /\ Len(before.layers) >= 2
    /\ before.height = 3 /\ before.width = 4 /\ before.channels = 1
    /\ layers = <<>>
    /\ input_spec = <<224, 224, 3>>

\* The response to the first request after the default state, which added a
\* Convolution layer with kernel_size 3, stride 1, padding 0, dilation 1.
C4_FirstConvCase ==
    /\ before.layers = <<>>
    /\ before.height = 224
    /\ before.width = 224
    /\ layers = <<Layer("Conv2D", 3, 1, 0, 1)>>
    /\ response.route = "/api/add_layer"

C4_FirstConvRow(start_milli) ==
    /\ response.kind = "trace"
    /\ Len(response.trace.layers) = 1
    /\ response.trace.layers[1].output_height = 222
    /\ response.trace.layers[1].output_width = 222
    /\ response.trace.layers[1].receptive_field = 3
    /\ response.trace.layers[1].jump = 1
    /\ response.trace.layers[1].start = start_milli

(* C4 as stated: from the default state, adding one Convolution layer     *)
(* with kernel_size 3, stride 1, padding 0, dilation 1 returns a trace     *)
(* whose single row has output 222x222, receptive field 3, jump 1 and      *)
(* start 1.0.                                                              *)
C4_SingleConvStartOne == C4_FirstConvCase => C4_FirstConvRow(1000)

(* C4 amended: in that case the single row has output 222x222, receptive   *)
(* field 3, jump 1 and start 1.5 (0.5 + ((3 - 1) / 2 - 0) * 1).            *)
C4_SingleConvStartOneAndHalf == C4_FirstConvCase => C4_FirstConvRow(1500)

C4_Witness == C4_FirstConvCase /\ response.kind = "trace"

---------------------------------------------------------------------------
(* Closed forms of C5, written from the claim. *)

KEff(l) == (l.kernel_size - 1) * l.dilation + 1

\* stride_1 * ... * stride_n
RECURSIVE StrideProduct(_, _)
StrideProduct(ls, n) ==
    IF n = 0 THEN 1 ELSE StrideProduct(ls, n - 1) * ls[n].stride

\* 1 + sum over m <= i of (k_eff_m - 1) * stride_1 * ... * stride_(m-1)
RECURSIVE RfClosed(_, _)
RfClosed(ls, i) ==
    IF i = 0 THEN 1
    ELSE RfClosed(ls, i - 1) + (KEff(ls[i]) - 1) * StrideProduct(ls, i - 1)

\* 0.5 + sum over m <= i of ((k_eff_m - 1) / 2 - padding_m) * stride_1 * ...
\* * stride_(m-1), in thousandths
RECURSIVE StartClosedMilli(_, _)
StartClosedMilli(ls, i) ==
    IF i = 0 THEN 500
    ELSE StartClosedMilli(ls, i - 1)
         + ((KEff(ls[i]) - 1) * 500 - ls[i].padding * 1000)
           * StrideProduct(ls, i - 1)

OutClosed(l, n) == ((n + 2 * l.padding - KEff(l)) \div l.stride) + 1

RowMatches(ls, row, i) ==
    /\ row.kernel_size = ls[i].kernel_size
    /\ row.stride = ls[i].stride
    /\ row.padding = ls[i].padding
    /\ row.dilation = ls[i].dilation
    /\ row.name = ls[i].name
    /\ row.effective_kernel = KEff(ls[i])
    /\ row.jump = StrideProduct(ls, i)
    /\ row.receptive_field = RfClosed(ls, i)
    /\ row.start = StartClosedMilli(ls, i)
    /\ row.output_height = OutClosed(ls[i], row.input_height)
    /\ row.output_width = OutClosed(ls[i], row.input_width)

TraceMatches(ls, trace) ==
    /\ Len(trace.layers) = Len(ls)
    /\ \A i \in 1..Len(ls) : RowMatches(ls, trace.layers[i], i)
    /\ trace.current_rf = RfClosed(ls, Len(ls))
    /\ trace.current_jump = StrideProduct(ls, Len(ls))
    /\ trace.current_start = StartClosedMilli(ls, Len(ls))
    /\ Len(ls) > 0 =>
          /\ trace.current_rf = trace.layers[Len(ls)].receptive_field
          /\ trace.current_jump = trace.layers[Len(ls)].jump
          /\ trace.current_start = trace.layers[Len(ls)].start

ConvThenMaxPool ==
    <<Layer("Conv2D", 3, 1, 0, 1), Layer("MaxPool2D", 2, 2, 0, 1)>>

(* C5: for valid layers and positive input sizes the trace has one row per *)
(* layer in insertion order, row i carrying jump = product of the strides  *)
(* up to i, receptive field and start as the closed sums, and output size  *)
(* floor((input + 2 * padding - k_eff) / stride) + 1; the final rf, jump   *)
(* and start are those of the last row; conv 3x3 stride 1 followed by      *)
(* MaxPool 2 stride 2 on 224x224 gives 111x111 and jump 2.  Every trace a  *)
(* handler returns is that trace.                                          *)
C5_TraceClosedForm ==
    (AllValid(layers) /\ PositiveInput) =>
        /\ ~CurrentOut.raised
        /\ TraceMatches(layers, CurrentOut.trace)
        /\ HasTrace(response) => response.trace = CurrentOut.trace
        /\ (layers = ConvThenMaxPool /\ input_height = 224
               /\ input_width = 224) =>
              /\ CurrentOut.trace.final_dimensions.height = 111
              /\ CurrentOut.trace.final_dimensions.width = 111
              /\ CurrentOut.trace.layers[2].jump = 2
              /\ CurrentOut.trace.current_jump = 2

C5_Witness ==
    /\ Len(layers) = 3
    /\ SubSeq(layers, 1, 2) = ConvThenMaxPool
    /\ layers[3] = Layer("Conv2D", 3, 1, 1, 2)
    /\ input_spec = <<224, 224, 3>>
    /\ response.route = "/api/add_layer"
    /\ response.kind = "trace"
    /\ response.trace.current_rf = 12

ChannelsPassThrough(trace, c) ==
    /\ trace.final_dimensions.channels = c
    /\ trace.input_dimensions.channels = c
    /\ \A i \in 1..Len(trace.layers) :
          /\ trace.layers[i].input_channels = c
          /\ trace.layers[i].output_channels = c

(* C6: whenever there is a trace, its final channel count is the declared  *)
(* input channel count and every row has input_channels = output_channels  *)
(* = that count, whatever the layer categories.                            *)
C6_ChannelsUnchanged ==
    /\ ~CurrentOut.raised => ChannelsPassThrough(CurrentOut.trace, input_channels)
    /\ HasTrace(response) => ChannelsPassThrough(response.trace, input_channels)

C6_Witness ==
    /\ input_channels = 1
    /\ Len(layers) = 3
    /\ {layers[i].name : i \in 1..3} = {"Conv2D", "MaxPool2D", "AvgPool2D"}
    /\ HasTrace(response)
    /\ response.trace.final_dimensions.channels = 1

(* C7: GetCurrentTrace changes neither the layer sequence nor the input    *)
(* dimensions (nor the rf, jump, start fields), and when it follows        *)
(* another computation of the trace with no mutation in between it returns *)
(* the same trace; what it returns is determined by the layer sequence and *)
(* the input dimensions.                                                   *)
C7_ComputeTraceIsPure ==
    [][current_state =>
         /\ layers' = layers
         /\ input_spec' = input_spec
         /\ <<rf, jump, start>>' = <<rf, jump, start>>
         /\ HasTrace(response) =>
               /\ response'.kind = "trace"
               /\ response'.trace = response.trace
         /\ response.kind = "exception" => response' = response
         /\ response'.kind = "trace" =>
               /\ ~CurrentOut.raised
               /\ response'.trace = CurrentOut.trace]_vars

C7_Witness ==
    /\ response.route = "/api/current_state"
    /\ response.kind = "trace"
    /\ Len(response.trace.layers) >= 2
    /\ input_spec = <<3, 4, 1>>
    /\ before = Snapshot

AppendedOne(old, new) ==
    /\ Len(new) = Len(old) + 1
    /\ SubSeq(new, 1, Len(old)) = old

(* C8: in every step the layer sequence stays the same, or gets exactly    *)
(* one descriptor appended at its end (add_layer), or becomes empty        *)
(* (reset); set_input_dimensions, upload_image and GetCurrentTrace never   *)
(* change it; nothing is removed or reordered short of a reset and no      *)
(* descriptor already in the sequence changes.                             *)
C8_LayerSequenceFrame ==
    [][/\ layers' = layers \/ AppendedOne(layers, layers') \/ layers' = <<>>
       /\ (\E r \in DimRequests : set_input_dimensions(r)) => layers' = layers
       /\ (\E u \in ImageUploads : upload_image(u)) => layers' = layers
       /\ current_state => layers' = layers
       /\ \A r \in AddLayerRequests : add_layer(r) =>
             \/ layers' = layers
             \/ /\ AppendedOne(layers, layers')
                /\ layers'[Len(layers')] = MakeLayer(r)
       /\ reset => layers' = <<>>]_vars

C8_Witness ==
    /\ response.route = "/api/add_layer"
    /\ Len(layers) >= 3
    /\ AppendedOne(before.layers, layers)
    /\ layers[1] # layers[2]
    /\ layers[2] # layers[3]

RowsChained(trace) ==
    LET n == Len(trace.layers)
    IN  /\ \A i \in 1..n :
              /\ trace.layers[i].input_height =
                    IF i = 1 THEN trace.input_dimensions.height
                    ELSE trace.layers[i - 1].output_height
              /\ trace.layers[i].input_width =
                    IF i = 1 THEN trace.input_dimensions.width
                    ELSE trace.layers[i - 1].output_width
        /\ trace.final_dimensions.height =
              IF n = 0 THEN trace.input_dimensions.height
              ELSE trace.layers[n].output_height
        /\ trace.final_dimensions.width =
              IF n = 0 THEN trace.input_dimensions.width
              ELSE trace.layers[n].output_width

RfJumpMonotone(trace) ==
    \A i \in 1..Len(trace.layers) :
        /\ trace.layers[i].receptive_field >= 1
        /\ trace.layers[i].jump >= 1
        /\ i > 1 =>
              /\ trace.layers[i].receptive_field
                    >= trace.layers[i - 1].receptive_field
              /\ trace.layers[i].jump >= trace.layers[i - 1].jump

OutputsPositive(trace) ==
    \A i \in 1..Len(trace.layers) :
        /\ trace.layers[i].output_height >= 1
        /\ trace.layers[i].output_width >= 1

(* C10: given only valid inputs, every trace is well formed: each row's    *)
(* output height and width are at least 1, each row's input dimensions are *)
(* the previous row's output dimensions (the first row's are the input     *)
(* dimensions), the final dimensions are the last row's output dimensions, *)
(* and receptive field and jump are at least 1 and never decrease from one *)
(* row to the next.                                                        *)
C10_TraceWellFormed ==
    (AllValid(layers) /\ PositiveInput) =>
        /\ ~CurrentOut.raised
        /\ OutputsPositive(CurrentOut.trace)
        /\ RowsChained(CurrentOut.trace)
        /\ RfJumpMonotone(CurrentOut.trace)

DeclaredInputSpecs ==
    { [height |-> DefaultHeight, width |-> DefaultWidth,
       channels |-> DefaultChannels] }
    \cup { r.arg : r \in {q \in ThreadRequests :
                                q.op = "set_input_dimensions"} }

LastRowIs(trace, layer) ==
    /\ Len(trace.layers) > 0
    /\ LET row == trace.layers[Len(trace.layers)]
       IN  /\ row.name = layer.name
           /\ row.kernel_size = layer.kernel_size
           /\ row.stride = layer.stride
           /\ row.padding = layer.padding
           /\ row.dilation = layer.dilation

(* C9: access to the one calculator shared by the request handlers is     *)
(* serialized: under any interleaving of AddLayer, Reset,                  *)
(* SetInputDimensions and GetCurrentTrace requests, the trace an AddLayer  *)
(* request returns has as its last row the layer that request appended,    *)
(* and every returned trace reports input dimensions set by one single     *)
(* operation, never a mix of two.                                          *)
C9_AccessSerialized ==
    \A t \in Threads :
        (pc[t] = "done" /\ resp[t].kind = "trace") =>
            /\ req[t].op = "add_layer" =>
                  LastRowIs(resp[t].trace, MakeLayer(req[t].arg))
            /\ resp[t].trace.input_dimensions \in DeclaredInputSpecs

====
